---- MODULE Spec2Model ----
(***************************************************************************)
(* A model of the knowledge-base index pipeline of discord-intern:         *)
(*   - AIClientImpl.summarize_for_kb_index     (community_intern/ai)       *)
(*   - FileSystemKnowledgeBase.build_index, load_index_text,               *)
(*     load_index_entries, load_source_content (community_intern/kb)       *)
(*   - FileSystemKnowledgeBase._fetch_url, load_source_content             *)
(*     (discord_intern/kb)                                                 *)
(* Text is modelled as a sequence of one-character strings, so that        *)
(* strip, split, join, startswith and the newline translation of           *)
(* read_text are computed as Python computes them.                         *)
(***************************************************************************)
EXTENDS Integers, Sequences, FiniteSets, TLC

(***************************************************************************)
(* Text helpers (Python str methods on sequences of characters).           *)
(***************************************************************************)
NL == "\n"
CR == "\r"
SP == " "

\* str.strip() with no argument removes these from both ends.
Whitespace == {SP, NL, CR, "\t"}

RECURSIVE lstrip(_, _)
lstrip(s, chars) ==
    IF s # <<>> /\ Head(s) \in chars THEN lstrip(Tail(s), chars) ELSE s

RECURSIVE rstrip(_, _)
rstrip(s, chars) ==
    IF s # <<>> /\ s[Len(s)] \in chars
    THEN rstrip(SubSeq(s, 1, Len(s) - 1), chars)
    ELSE s

strip(s) == rstrip(lstrip(s, Whitespace), Whitespace)

startswith(s, p) == Len(s) >= Len(p) /\ SubSeq(s, 1, Len(p)) = p

\* str.split(sep) for a non-empty separator: always at least one field.
RECURSIVE split(_, _)
split(s, sep) ==
    IF \E i \in 1..(Len(s) - Len(sep) + 1) : SubSeq(s, i, i + Len(sep) - 1) = sep
    THEN LET i == CHOOSE k \in 1..(Len(s) - Len(sep) + 1) :
                    /\ SubSeq(s, k, k + Len(sep) - 1) = sep
                    /\ \A j \in 1..(k - 1) : SubSeq(s, j, j + Len(sep) - 1) # sep
         IN <<SubSeq(s, 1, i - 1)>> \o split(SubSeq(s, i + Len(sep), Len(s)), sep)
    ELSE <<s>>

\* sep.join(parts)
RECURSIVE join(_, _)
join(parts, sep) ==
    IF parts = <<>> THEN <<>>
    ELSE IF Len(parts) = 1 THEN parts[1]
    ELSE parts[1] \o sep \o join(Tail(parts), sep)

\* str.replace(a, b) for single characters.
replace(s, a, b) == [i \in 1..Len(s) |-> IF s[i] = a THEN b ELSE s[i]]

\* Code points of the characters the model uses (Python compares str by code point).
ord(c) ==
    CASE c = "\t" -> 9  [] c = NL -> 10 [] c = CR -> 13 [] c = SP -> 32
      [] c = "#" -> 35  [] c = "-" -> 45 [] c = "." -> 46 [] c = "/" -> 47
      [] c = ":" -> 58  [] c = "\\" -> 92
      [] c = "a" -> 97  [] c = "b" -> 98 [] c = "h" -> 104 [] c = "p" -> 112
      [] c = "s" -> 115 [] c = "t" -> 116 [] c = "w" -> 119 [] c = "x" -> 120
      [] OTHER -> 0

\* Python's str.__lt__ : lexicographic by code point, a proper prefix is smaller.
RECURSIVE str_lt(_, _)
str_lt(a, b) ==
    IF b = <<>> THEN FALSE
    ELSE IF a = <<>> THEN TRUE
    ELSE IF Head(a) # Head(b) THEN ord(Head(a)) < ord(Head(b))
    ELSE str_lt(Tail(a), Tail(b))

\* All sequences over S of length at most n.
StrUpTo(S, n) == UNION {[1..k -> S] : k \in 0..n}

(***************************************************************************)
(* State.                                                                  *)
(***************************************************************************)
VARIABLES
    \* --- AIClientImpl.summarize_for_kb_index / _make_request ---
    max_retries,   \* self._config.max_retries
    sm_pc,         \* position in the call
    attempt,       \* the loop variable of _make_request
    last_error,    \* last_error of _make_request ("None" when unset)
    sm_result,     \* what the call returned or raised
    requests,      \* the outcomes of the session.post calls issued, in order
    sleeps         \* the asyncio.sleep calls made: <<after attempt, half-seconds>>

smVars == <<max_retries, sm_pc, attempt, last_error, sm_result, requests, sleeps>>

VARIABLES
    \* --- the index artifact: build_index's write, load_index_entries' parse ---
    ix_entries,    \* the (source_id, summary) pairs build_index collected
    ix_file,       \* the index file
    ix_loaded      \* what load_index_entries returned, or NotLoaded

ixVars == <<ix_entries, ix_file, ix_loaded>>

VARIABLES
    \* --- FileSystemKnowledgeBase._fetch_url and the cache directory ---
    cache,         \* cache_dir / sha256(url), per URL: the cache file
    cache_origin,  \* per URL: the GET outcome whose body the cache file was written from
    fx_call,       \* per caller: the _fetch_url call suspended in session.get
    fx_prev,       \* per URL: the last completed _fetch_url call
    fx_last        \* the call completed last, with the one before it on the same URL

fxVars == <<cache, cache_origin, fx_call, fx_prev, fx_last>>

VARIABLES
    \* --- FileSystemKnowledgeBase.load_source_content ---
    rs_id,         \* the source_id argument of the call
    rs_result      \* what the call returned or raised, and the file it read

rsVars == <<rs_id, rs_result>>

VARIABLES
    \* --- FileSystemKnowledgeBase.build_index and a concurrent reader ---
    bd_root,        \* whether the sources directory exists
    bd_disk,        \* relative path -> what is on disk there
    bd_links,       \* the links file
    bd_artifact,    \* the index file
    bd_old,         \* the index file as it was before the build
    bd_pc,          \* position of the build_index coroutine
    bd_files_todo,  \* rest of sorted_files
    bd_urls_todo,   \* rest of sorted_urls
    bd_entries,     \* entries: list[str]
    bd_log,         \* per processed source: the text obtained and how it ended
    bd_inflight,    \* the fetch and summarization requests awaiting their result
    bd_read         \* what the last load_index_text call returned, and when

bdVars == <<bd_root, bd_disk, bd_links, bd_artifact, bd_old, bd_pc, bd_files_todo,
            bd_urls_todo, bd_entries, bd_log, bd_inflight, bd_read>>

vars == <<smVars, ixVars, fxVars, rsVars, bdVars>>

\* What the actions of one component leave alone.
smOthers == <<ixVars, fxVars, rsVars, bdVars>>
ixOthers == <<smVars, fxVars, rsVars, bdVars>>
fxOthers == <<smVars, ixVars, rsVars, bdVars>>
rsOthers == <<smVars, ixVars, fxVars, bdVars>>
bdOthers == <<smVars, ixVars, fxVars, rsVars>>

\* A file of the disk: whether it exists, and the characters stored in it.
NoFile == [exists |-> FALSE, data |-> <<>>]
File(data) == [exists |-> TRUE, data |-> data]

NotLoaded == [done |-> FALSE, file |-> NoFile, entries |-> <<>>]

\* A component that is not running in the specification at hand.
MaxRetries == 2

\* last_error = None
None == [type |-> "None", status |-> 0, at |-> 0]

\* URL strings; the cache key sha256(url) is taken to be collision free, so a cache
\* file is identified by its URL.
U1 == <<"h", "t", "t", "p", ":", "/", "/", "a">>
U2 == <<"h", "t", "t", "p", ":", "/", "/", "b">>
Urls == {U1, U2}

\* The callers of _fetch_url that can be suspended at the same time: build_index
\* and load_source_content.
Callers == {"build_index", "load_source_content"}

NoOutcome == [kind |-> "none", status |-> 0, body |-> <<>>]
NoCall == [active |-> FALSE, url |-> <<>>, prev |-> [done |-> FALSE], alone |-> FALSE,
           writing |-> FALSE, outcome |-> NoOutcome, over |-> FALSE]
NoFetch == [done |-> FALSE]

\* Bound on the length of a file source id.
MaxIdLen == 5

\* Characters of file source ids: separators, dots and one-letter names.
RsAlphabet == {"/", ".", "\\", "s", "a", "w"}

NoResult == [impl |-> "none", kind |-> "none", text |-> <<>>, read |-> <<>>]

\* Relative paths under the sources directory that may hold a file.
BdPaths == { <<"a", "/", "b">>, <<"a", "-", "b">>, <<".", "b">> }

\* What a path holds: nothing, a text file, a text file that mentions URLs, an
\* empty file, a file that is not UTF-8, or a file whose read fails with OSError
\* (e.g. no read permission).
BdStatuses == {"absent", "text", "urls", "empty", "undecodable", "unreadable"}

\* Contents of the links file.
LinksFiles ==
    { NoFile,
      File(U2 \o <<NL>> \o U1 \o <<NL>>),
      File(<<"#", "x", CR, NL, SP>> \o U1 \o <<SP, NL, NL>> \o U1) }

\* The index file left by an earlier build, if any.
OldArtifacts == { NoFile, File(<<"w", NL, "x">>) }

NoRead == [done |-> FALSE, text |-> <<>>, pc |-> "idle"]

\* The initial state; `running` names the component whose inputs are drawn, the
\* others rest.
Start(running) ==
    /\ max_retries \in IF running = "summarize" THEN 0..MaxRetries ELSE {0}
    /\ sm_pc = "idle"
    /\ attempt = 0
    /\ last_error = None
    /\ sm_result = [kind |-> "none", value |-> <<>>, error |-> None]
    /\ requests = <<>>
    /\ sleeps = <<>>
    /\ ix_entries = <<>>
    /\ ix_file = NoFile
    /\ ix_loaded = NotLoaded
    /\ cache = [u \in Urls |-> NoFile]
    /\ cache_origin = [u \in Urls |-> NoOutcome]
    /\ fx_call = [p \in Callers |-> NoCall]
    /\ fx_prev = [u \in Urls |-> NoFetch]
    /\ fx_last = [cur |-> NoFetch, prev |-> NoFetch, alone |-> FALSE, end |-> "none",
                  over |-> FALSE]
    /\ rs_id \in IF running = "resolve" THEN StrUpTo(RsAlphabet, MaxIdLen) \cup Urls
                 ELSE {<<>>}
    /\ rs_result = NoResult
    /\ bd_root \in IF running = "build" THEN BOOLEAN ELSE {FALSE}
    /\ bd_disk \in IF running = "build" /\ bd_root
                   THEN { d \in [BdPaths -> BdStatuses] :
                            \A p \in BdPaths : Head(p) = "." => d[p] \in {"absent", "urls"} }
                   ELSE {[p \in BdPaths |-> "absent"]}
    /\ bd_links \in IF running = "build" THEN LinksFiles ELSE {NoFile}
    /\ bd_artifact \in IF running = "build" THEN OldArtifacts ELSE {NoFile}
    /\ bd_old = bd_artifact
    /\ bd_pc = "idle"
    /\ bd_files_todo = <<>>
    /\ bd_urls_todo = <<>>
    /\ bd_entries = <<>>
    /\ bd_log = <<>>
    /\ bd_inflight = {}
    /\ bd_read = NoRead

(***************************************************************************)
(* AIClientImpl.summarize_for_kb_index                                     *)
(*                                                                         *)
(* One attempt is one session.post.  Its outcome is what the endpoint and  *)
(* the network do: no response at all (aiohttp.ClientError or              *)
(* asyncio.TimeoutError raised by the post), or a response with a status   *)
(* whose body is then read (resp.json() for 200, resp.text() otherwise);   *)
(* reading the body is network I/O inside the same try block and may       *)
(* raise aiohttp.ClientError as well.  Bodies that arrive are well formed  *)
(* (decodable, and a 200 body holds choices[0].message.content).           *)
(***************************************************************************)
Statuses == {200, 429, 503, 401}

Outcomes ==
    [kind : {"response"}, status : Statuses, body : {"ok", "ClientError"}]
    \cup [kind : {"ClientError", "TimeoutError"}, status : {0}, body : {"none"}]

\* data["choices"][0]["message"]["content"] of a 200 response
Completions == {<<"x">>, <<SP, "x", NL>>, <<NL>>}

\* The text argument of the call.
SmTexts == {<<>>, <<SP, NL>>, <<"x">>}

\* for attempt in range(self._config.max_retries + 1)
AttemptLimitOffByOne == max_retries + 2
AttemptLimit == max_retries + 1

\* if resp.status == 429 or 500 <= resp.status < 600
IsRetryStatusAll(status) == status # 200
IsRetryStatus(status) == status = 429 \/ (500 <= status /\ status < 600)

\* 0.5 * (2 ** attempt), in half seconds
BackoffDelayFlat(k) == 1
BackoffDelay(k) == 2 ^ k

\* One attempt as the call saw it: the outcome, and the completion when a 200
\* body was read.
Attempted(o, content) ==
    [kind |-> o.kind, status |-> o.status, body |-> o.body,
     content |-> IF o.kind = "response" /\ o.status = 200 /\ o.body = "ok"
                 THEN content ELSE <<>>]

\* Lines 164-166: if last_error: raise last_error; raise RuntimeError("Max retries
\* exceeded")
MaxRetriesExceeded(k) == [type |-> "MaxRetriesExceeded", status |-> 0, at |-> k]
RaisedAlwaysGeneric(err, k) == MaxRetriesExceeded(k)
RaisedWhenExhausted(err, k) == IF err # None THEN err ELSE MaxRetriesExceeded(k)

SmInit == Start("summarize")

\* Lines 103-131: the empty-text fast path, then the first loop iteration.
summarize_for_kb_index(text) ==
    /\ sm_pc = "idle"
    /\ IF strip(text) = <<>>
       THEN /\ sm_pc' = "returned"
            /\ sm_result' = [kind |-> "returned", value |-> <<>>, error |-> None]
       ELSE /\ sm_pc' = IF 0 < AttemptLimit THEN "request" ELSE "exhausted"
            /\ UNCHANGED sm_result
    /\ attempt' = 0
    /\ last_error' = None
    /\ UNCHANGED <<max_retries, requests, sleeps, smOthers>>

\* Lines 133-158: one session.post and the handling of what came back.
make_request(o, content) ==
    /\ sm_pc = "request"
    /\ requests' = Append(requests, Attempted(o, content))
    /\ IF o.kind = "response" /\ o.body = "ok"
       THEN IF o.status = 200
            THEN /\ sm_pc' = "returned"
                 /\ sm_result' = [kind |-> "returned", value |-> strip(content),
                                  error |-> None]
                 /\ UNCHANGED last_error
            ELSE IF IsRetryStatus(o.status)
            THEN /\ last_error' = [type |-> "HTTP", status |-> o.status, at |-> attempt]
                 /\ sm_pc' = "backoff"
                 /\ UNCHANGED sm_result
            ELSE /\ sm_pc' = "raised"
                 /\ sm_result' = [kind |-> "raised", value |-> <<>>,
                                  error |-> [type |-> "HTTP", status |-> o.status,
                                             at |-> attempt]]
                 /\ UNCHANGED last_error
       ELSE \* except (aiohttp.ClientError, asyncio.TimeoutError)
            /\ last_error' = [type |-> IF o.kind = "response" THEN o.body ELSE o.kind,
                              status |-> 0, at |-> attempt]
            /\ sm_pc' = "backoff"
            /\ UNCHANGED sm_result
    /\ UNCHANGED <<max_retries, attempt, sleeps, smOthers>>

\* Lines 160-162 and the loop header: sleep if a retry follows, then go on.
backoff ==
    /\ sm_pc = "backoff"
    /\ sleeps' = IF attempt < max_retries
                 THEN Append(sleeps, <<attempt, BackoffDelay(attempt)>>)
                 ELSE sleeps
    /\ attempt' = attempt + 1
    /\ sm_pc' = IF attempt + 1 < AttemptLimit THEN "request" ELSE "exhausted"
    /\ UNCHANGED <<max_retries, last_error, sm_result, requests, smOthers>>

\* Lines 164-166: the loop ran out.
raise_exhausted ==
    /\ sm_pc = "exhausted"
    /\ sm_pc' = "raised"
    /\ sm_result' = [kind |-> "raised", value |-> <<>>,
                     error |-> RaisedWhenExhausted(last_error, attempt)]
    /\ UNCHANGED <<max_retries, attempt, last_error, requests, sleeps, smOthers>>

SmNext ==
    \/ \E text \in SmTexts : summarize_for_kb_index(text)
    \/ \E o \in Outcomes, content \in Completions : make_request(o, content)
    \/ backoff
    \/ raise_exhausted

SpecSummarize ==
    /\ SmInit
    /\ [][SmNext]_vars

(***************************************************************************)
(* Claims about summarize_for_kb_index.                                    *)
(***************************************************************************)
\* The claims' own reading of an attempt, independent of the code's test.
EndsTransient(o) ==
    \/ o.kind \in {"ClientError", "TimeoutError"}
    \/ o.kind = "response" /\ o.body # "ok"
    \/ o.kind = "response" /\ (o.status = 429 \/ o.status \in 500..599)

HasFatalStatus(o) ==
    o.kind = "response" /\ o.status # 200 /\ o.status # 429 /\ o.status \notin 500..599

SmEnded == sm_pc \in {"returned", "raised"}

\* C4: a call on non-empty text never issues more than max_retries + 1 requests,
\* and a call whose every attempt ends in a transient failure (429, 5xx, connection
\* error, timeout) has issued exactly max_retries + 1 requests when it ends, and
\* ends by raising.
C4_RetryBound ==
    /\ Len(requests) <= max_retries + 1
    /\ (SmEnded /\ requests # <<>> /\ \A i \in 1..Len(requests) : EndsTransient(requests[i]))
         => (Len(requests) = max_retries + 1 /\ sm_pc = "raised")

C4_Witness ==
    /\ sm_pc = "raised"
    /\ max_retries = 2
    /\ Len(requests) = 3
    /\ \A i \in 1..3 : requests[i].kind = "response" /\ requests[i].status = 503

ErrorOf(o, k) ==
    IF o.kind = "response" /\ o.body = "ok"
    THEN [type |-> "HTTP", status |-> o.status, at |-> k]
    ELSE [type |-> IF o.kind = "response" THEN o.body ELSE o.kind, status |-> 0, at |-> k]

AllTransient ==
    /\ requests # <<>>
    /\ \A i \in 1..Len(requests) : EndsTransient(requests[i])

LastErrorRaised ==
    (sm_pc = "raised" /\ Len(requests) = max_retries + 1 /\ AllTransient)
        => sm_result.error = ErrorOf(requests[Len(requests)], max_retries)

\* C15 as stated: the call returns the trimmed completion of the first HTTP 200
\* and issues no request after it; when all max_retries + 1 attempts fail
\* transiently the error raised is that of the last attempt; the generic
\* "retries exhausted" error is never raised.
C15_Original ==
    /\ \A i \in 1..Len(requests) :
          (requests[i].kind = "response" /\ requests[i].status = 200)
            => /\ i = Len(requests)
               /\ SmEnded => /\ sm_pc = "returned"
                             /\ sm_result.value = strip(requests[i].content)
    /\ LastErrorRaised
    /\ sm_result.error.type # "MaxRetriesExceeded"

\* C15 amended: the same for the first HTTP 200 whose body is read without a
\* network error; a 200 whose body read fails is a transient failure.
C15_FirstReadable200 ==
    /\ \A i \in 1..Len(requests) :
          (requests[i].kind = "response" /\ requests[i].status = 200
             /\ requests[i].body = "ok")
            => /\ i = Len(requests)
               /\ sm_pc = "returned"
               /\ sm_result.value = strip(requests[i].content)
    /\ LastErrorRaised
    /\ sm_result.error.type # "MaxRetriesExceeded"

\* A 503 was followed by a 200 whose completion carried surrounding whitespace.
C15_Witness ==
    /\ sm_pc = "returned"
    /\ Len(requests) = 2
    /\ requests[1].status = 503
    /\ requests[2].status = 200
    /\ requests[2].content = <<SP, "x", NL>>
    /\ sm_result.value = <<"x">>

\* C16: a backoff sleep occurs only between a transiently failed attempt and the
\* next attempt: the sleep after attempt k lasts base_delay * 2^k (in units of
\* base_delay), none precedes the first attempt, none follows attempt max_retries,
\* a successful attempt or a fatal attempt, and a call that exhausts its retries
\* has slept exactly max_retries times.
C16_BackoffSleeps ==
    /\ Len(sleeps) <= Len(requests)
    /\ \A j \in 1..Len(sleeps) :
          /\ sleeps[j][1] = j - 1
          /\ sleeps[j][2] = 2 ^ (j - 1)
          /\ j - 1 < max_retries
          /\ EndsTransient(requests[j])
          /\ requests[j].content = <<>>
          /\ ~(HasFatalStatus(requests[j]) /\ requests[j].body = "ok")
          /\ Len(requests) > j \/ sm_pc = "request"
    /\ SmEnded => Len(sleeps) = Len(requests) - 1 \/ requests = <<>>
    /\ (sm_pc = "raised" /\ Len(requests) = max_retries + 1 /\ AllTransient)
          => Len(sleeps) = max_retries

\* Three attempts failed transiently with two sleeps of 1 and 2 units between.
C16_Witness ==
    /\ sm_pc = "raised"
    /\ max_retries = 2
    /\ Len(requests) = 3
    /\ sleeps = << <<0, 1>>, <<1, 2>> >>

(***************************************************************************)
(* The index artifact: serialisation in build_index, parsing in            *)
(* load_index_entries, and the text-mode file in between.                  *)
(***************************************************************************)
MaxEntries == 2
MaxChars == 4

IxAlphabet == {"x", SP, NL, CR}

\* Path.write_text: text mode, newline=None: "\n" is written as os.linesep.
os_linesep == <<NL>>

RECURSIVE write_text(_)
write_text(text) ==
    IF text = <<>> THEN <<>>
    ELSE (IF Head(text) = NL THEN os_linesep ELSE <<Head(text)>>) \o write_text(Tail(text))

\* Path.read_text: text mode, newline=None: universal newlines, "\r\n" and "\r"
\* are read as "\n".
RECURSIVE read_text(_)
read_text(data) ==
    IF data = <<>> THEN <<>>
    ELSE IF Head(data) = CR
    THEN <<NL>> \o read_text(IF Len(data) >= 2 /\ data[2] = NL
                             THEN SubSeq(data, 3, Len(data))
                             ELSE Tail(data))
    ELSE <<Head(data)>> \o read_text(Tail(data))

\* f"{rel_path}\n{summary}" and f"{url}\n{summary}"
FormatEntry(e) == e.source_id \o <<NL>> \o e.description

\* "\n\n".join(entries)
EntrySeparatorSingle == <<NL>>
EntrySeparator == <<NL, NL>>

index_content(entries) ==
    join([i \in 1..Len(entries) |-> FormatEntry(entries[i])], EntrySeparator)

\* load_index_text: "" when the file does not exist
load_index_text(file) == IF ~file.exists THEN <<>> ELSE read_text(file.data)

RECURSIVE parse_chunks(_)
parse_chunks(chunks) ==
    IF chunks = <<>> THEN <<>>
    ELSE LET lines == split(strip(Head(chunks)), <<NL>>)
         IN  IF lines = <<>>
             THEN parse_chunks(Tail(chunks))
             ELSE <<[source_id |-> strip(lines[1]),
                     description |-> strip(join(Tail(lines), <<NL>>))]>>
                  \o parse_chunks(Tail(chunks))

load_index_entries(file) ==
    LET text == load_index_text(file)
    IN  IF text = <<>> THEN <<>>
        ELSE parse_chunks(split(strip(text), <<NL, NL>>))

\* The characters held by the entries collected so far.
RECURSIVE CharsIn(_)
CharsIn(entries) ==
    IF entries = <<>> THEN 0
    ELSE Len(Head(entries).source_id) + Len(Head(entries).description)
         + CharsIn(Tail(entries))

\* The strings of at most n characters, n = 0 .. MaxChars.
IxStrings == [n \in 0..MaxChars |-> StrUpTo(IxAlphabet, n)]

IxInit == Start("index")

\* build_index lines 116 and 137: entries.append(f"{source_id}\n{summary}"), for
\* whatever source id and summary the build has at hand.
append_entry(id, summary) ==
    /\ ~ix_file.exists
    /\ Len(ix_entries) < MaxEntries
    /\ CharsIn(ix_entries) + Len(id) + Len(summary) <= MaxChars
    /\ ix_entries' = Append(ix_entries, [source_id |-> id, description |-> summary])
    /\ UNCHANGED <<ix_file, ix_loaded, ixOthers>>

\* build_index lines 141-147: join the entries and write the index file.
write_index ==
    /\ ~ix_file.exists
    /\ ix_file' = File(write_text(index_content(ix_entries)))
    /\ UNCHANGED <<ix_entries, ix_loaded, ixOthers>>

\* load_index_entries, lines 41-57; the file it read is kept beside the result.
load_entries ==
    /\ ~ix_loaded.done
    /\ ix_loaded' = [done |-> TRUE, file |-> ix_file,
                      entries |-> load_index_entries(ix_file)]
    /\ UNCHANGED <<ix_entries, ix_file, ixOthers>>

IxNext ==
    \/ \E id \in IxStrings[MaxChars - CharsIn(ix_entries)] :
          \E summary \in IxStrings[MaxChars - CharsIn(ix_entries) - Len(id)] :
             append_entry(id, summary)
    \/ write_index
    \/ load_entries

SpecIndex ==
    /\ IxInit
    /\ [][IxNext]_vars

(***************************************************************************)
(* Claims about the artifact format.                                       *)
(***************************************************************************)
HasBlankLine(d) == \E i \in 1..(Len(d) - 1) : d[i] = NL /\ d[i + 1] = NL

IxRoundTripDone == ix_file.exists /\ ix_loaded.done /\ ix_loaded.file = ix_file

\* C8 as stated: for every sequence of entries whose descriptions contain no blank
\* line, parsing the joined text returns the same entries in the same order.
C8_Original ==
    (IxRoundTripDone /\ \A i \in 1..Len(ix_entries) : ~HasBlankLine(ix_entries[i].description))
      => ix_loaded.entries = ix_entries

\* A string the parser gives back as it was: nothing for strip() to remove, and no
\* carriage return for the text-mode read to translate.
IsTrimmed(t) == strip(t) = t /\ \A i \in 1..Len(t) : t[i] # CR

IsIndexable(e) ==
    /\ e.source_id # <<>>
    /\ IsTrimmed(e.source_id)
    /\ \A i \in 1..Len(e.source_id) : e.source_id[i] # NL
    /\ IsTrimmed(e.description)
    /\ ~HasBlankLine(e.description)

\* C8 amended: the round trip holds for every sequence of entries whose source ids
\* are non-empty single lines and whose source ids and descriptions have no leading
\* or trailing whitespace and no carriage return (what build_index produces from
\* paths, URLs and trimmed summaries), the descriptions containing no blank line;
\* it includes the empty sequence and empty descriptions.
C8_RoundTrip ==
    (IxRoundTripDone /\ \A i \in 1..Len(ix_entries) : IsIndexable(ix_entries[i]))
      => ix_loaded.entries = ix_entries

C8_Witness ==
    /\ IxRoundTripDone
    /\ Len(ix_entries) = 2
    /\ \A i \in 1..2 : IsIndexable(ix_entries[i])
    /\ ix_entries[1].description = <<>>
    /\ ix_entries[2].description # <<>>
    /\ ix_loaded.entries = ix_entries

\* C21: load_index_entries skips empty chunks: whatever the text of the index file,
\* no returned entry has an empty source_id, and a missing file or empty text gives
\* the empty sequence.
C21_EmptyChunksSkipped ==
    ix_loaded.done =>
        /\ \A i \in 1..Len(ix_loaded.entries) : ix_loaded.entries[i].source_id # <<>>
        /\ load_index_text(ix_loaded.file) = <<>> => ix_loaded.entries = <<>>

(***************************************************************************)
(* FileSystemKnowledgeBase._fetch_url (discord_intern/kb/impl.py).         *)
(*                                                                         *)
(* A call checks the cache file and, on a miss, suspends in session.get;   *)
(* what the remote end answers is the input of the second step.  The cache *)
(* file is written and read in text mode (write_text / read_text).         *)
(***************************************************************************)
\* self.config.max_source_bytes
max_source_bytes == 1

\* Bytes of a response body; "\\xff" is a byte that is no valid UTF-8.
ByteAlphabet == {"x", CR, "\\xff"}
Bodies == StrUpTo(ByteAlphabet, max_source_bytes + 1)

\* content.decode("utf-8", errors="replace")
decode_replace(content) ==
    [i \in 1..Len(content) |-> IF content[i] = "\\xff" THEN "U+FFFD" ELSE content[i]]

\* What one session.get can end in: a status (and, for 200, the body that
\* response.read() returns), or an exception (timeout, connection error).
GetOutcomes ==
    [kind : {"response"}, status : {200}, body : Bodies]
    \cup [kind : {"response"}, status : {404, 500}, body : {<<>>}]
    \cup [kind : {"exception"}, status : {0}, body : {<<>>}]

\* What the GET of a call ended in.
EndOf(o) ==
    IF o.kind = "none" THEN "hit"
    ELSE IF o.kind = "exception" THEN "exception"
    ELSE IF o.status \notin 200..299 THEN "status"
    ELSE IF Len(o.body) > max_source_bytes THEN "too_large"
    ELSE "read"

\* A completed call: the GETs it issued, the text it returned, and whether that
\* text came from the cache or from a response that was stored in it.
Fetched(u, n, t, ok) == [done |-> TRUE, url |-> u, gets |-> n, text |-> t, ok |-> ok]

\* The bookkeeping of a completed call: it becomes the last call of its URL.
\* Of the call that completed last it also keeps what its GET ended in and whether
\* its write replaced an existing cache file.
Completed(p, r, prev, alone, o, over) ==
    /\ fx_prev' = [fx_prev EXCEPT ![r.url] = r]
    /\ fx_last' = [cur |-> r, prev |-> prev, alone |-> alone, end |-> EndOf(o),
                   over |-> over]

\* Another call on the same URL started while this one was suspended.
Disturb(calls, p, u) ==
    [q \in Callers |-> IF q # p /\ calls[q].active /\ calls[q].url = u
                       THEN [calls[q] EXCEPT !.alone = FALSE]
                       ELSE calls[q]]

\* if cache_file.exists(): return cache_file.read_text(encoding="utf-8")
CacheHitNever(u) == FALSE
CacheHit(u) == cache[u].exists

\* return cache_file.read_text(encoding="utf-8")
CachedTextNone(u) == <<>>
CachedText(u) == read_text(cache[u].data)

\* Coroutine p runs only while no other coroutine is between the open and the
\* close of a cache file: lines 175-179 hold no await.
CacheWriteInterruptible(p) == TRUE
CacheWriteUninterrupted(p) == \A q \in Callers \ {p} : ~fx_call[q].writing

\* Lines 155-163: the cache check, and on a miss the start of session.get.
fetch_url(p, u) ==
    /\ ~fx_call[p].active
    /\ CacheWriteUninterrupted(p)
    /\ LET alone == \A q \in Callers : ~(fx_call[q].active /\ fx_call[q].url = u)
       IN  IF CacheHit(u)
           THEN /\ Completed(p, Fetched(u, 0, CachedText(u), TRUE), fx_prev[u], alone,
                             NoOutcome, FALSE)
                /\ fx_call' = Disturb(fx_call, p, u)
           ELSE /\ fx_call' = [Disturb(fx_call, p, u) EXCEPT
                                 ![p] = [active |-> TRUE, url |-> u,
                                         prev |-> fx_prev[u], alone |-> alone,
                                         writing |-> FALSE, outcome |-> NoOutcome,
                                         over |-> FALSE]]
                /\ UNCHANGED <<fx_prev, fx_last>>
    /\ UNCHANGED <<cache, cache_origin, fxOthers>>

\* if len(content) > self.config.max_source_bytes
TooLargeNever(content) == FALSE
TooLarge(content) == Len(content) > max_source_bytes

\* Lines 163-178: the response of session.get; a body that is kept is decoded
\* and the cache file is opened for writing, which truncates it.
fetch_url_response(p, o) ==
    /\ fx_call[p].active
    /\ ~fx_call[p].writing
    /\ CacheWriteUninterrupted(p)
    /\ LET u == fx_call[p].url
           stored == o.kind = "response" /\ o.status = 200 /\ ~TooLarge(o.body)
       IN  IF stored
           THEN /\ cache' = [cache EXCEPT ![u] = File(<<>>)]
                /\ cache_origin' = [cache_origin EXCEPT ![u] = o]
                /\ fx_call' = [fx_call EXCEPT ![p].writing = TRUE, ![p].outcome = o,
                                              ![p].over = cache[u].exists]
                /\ UNCHANGED <<fx_prev, fx_last>>
           ELSE /\ Completed(p, Fetched(u, 1, <<>>, FALSE),
                             fx_call[p].prev, fx_call[p].alone, o, FALSE)
                /\ fx_call' = [fx_call EXCEPT ![p] = NoCall]
                /\ UNCHANGED <<cache, cache_origin>>
    /\ UNCHANGED fxOthers

\* Lines 178-179: the text is written, the cache file closed, the text returned.
fetch_url_write(p) ==
    /\ fx_call[p].active
    /\ fx_call[p].writing
    /\ LET u == fx_call[p].url
           text == decode_replace(fx_call[p].outcome.body)
       IN  /\ cache' = [cache EXCEPT ![u] = File(write_text(text))]
           /\ Completed(p, Fetched(u, 1, text, TRUE), fx_call[p].prev, fx_call[p].alone,
                        fx_call[p].outcome, fx_call[p].over)
    /\ fx_call' = [fx_call EXCEPT ![p] = NoCall]
    /\ UNCHANGED <<cache_origin, fxOthers>>

FxInit == Start("fetch")

FxNext ==
    \/ \E p \in Callers, u \in Urls : fetch_url(p, u)
    \/ \E p \in Callers, o \in GetOutcomes : fetch_url_response(p, o)
    \/ \E p \in Callers : fetch_url_write(p)

SpecFetch ==
    /\ FxInit
    /\ [][FxNext]_vars

(***************************************************************************)
(* Claims about _fetch_url and the cache.                                  *)
(***************************************************************************)
\* Two calls on one URL, the second started after the first had returned and
\* neither overlapping another call on that URL.
FetchedTwice ==
    /\ fx_last.cur.done
    /\ fx_last.prev.done
    /\ fx_last.alone

\* C6 as stated: fetching the same URL twice returns identical text both times and
\* performs at most one network GET in total, whatever the first fetch ended in.
C6_Original ==
    FetchedTwice =>
        /\ fx_last.cur.text = fx_last.prev.text
        /\ fx_last.cur.gets + fx_last.prev.gets <= 1

HasCR(t) == \E i \in 1..Len(t) : t[i] = CR

\* The text as the text-mode cache file gives it back: "\r\n" and "\r" become "\n".
RECURSIVE NewlinesTranslated(_)
NewlinesTranslated(t) ==
    IF t = <<>> THEN <<>>
    ELSE IF Head(t) = CR /\ Len(t) >= 2 /\ t[2] = NL
    THEN <<NL>> \o NewlinesTranslated(SubSeq(t, 3, Len(t)))
    ELSE <<IF Head(t) = CR THEN NL ELSE Head(t)>> \o NewlinesTranslated(Tail(t))

\* C6 amended: when the first of the two fetches is a cache hit or a GET answered
\* 200 with a body within max_source_bytes, the second fetch issues no GET (at most
\* one GET in total) and returns the cached text, which is the first text with
\* carriage returns read back as newlines: identical when the first text holds no
\* carriage return.  A first fetch that failed is not cached, and the second fetch
\* goes to the network again.
C6_FetchTwice ==
    (FetchedTwice /\ fx_last.prev.ok) =>
        /\ fx_last.cur.gets = 0
        /\ fx_last.cur.gets + fx_last.prev.gets <= 1
        /\ fx_last.cur.text = NewlinesTranslated(fx_last.prev.text)
        /\ ~HasCR(fx_last.prev.text) => fx_last.cur.text = fx_last.prev.text

C6_Witness ==
    /\ FetchedTwice
    /\ fx_last.prev.ok
    /\ fx_last.prev.gets = 1
    /\ fx_last.prev.text = <<"x">>
    /\ fx_last.cur.text = <<"x">>
    /\ fx_last.cur.gets = 0

\* A coroutine is between the open and the close of the cache file of u.
CacheFileOpen(u) == \E p \in Callers : fx_call[p].writing /\ fx_call[p].url = u

\* C7: a cache entry exists only if an earlier fetch of that URL got a 200 response
\* whose body was non-empty and within max_source_bytes; no entry holds empty text.
C7_CacheEntriesValid ==
    \A u \in Urls :
        (cache[u].exists /\ ~CacheFileOpen(u)) =>
            /\ cache_origin[u].kind = "response"
            /\ cache_origin[u].status = 200
            /\ cache_origin[u].body # <<>>
            /\ Len(cache_origin[u].body) <= max_source_bytes
            /\ cache[u].data # <<>>

\* A cache entry: a cache file that no coroutine is in the middle of writing.
EntryExists(u) == cache[u].exists /\ ~CacheFileOpen(u)

NoneInFlight(u) == \A p \in Callers : ~(fx_call[p].active /\ fx_call[p].url = u)

FailedEnd == fx_last.end \in {"status", "too_large", "exception"}

\* A call returns in this step.
Returns == \E p \in Callers : fx_call[p].active /\ ~fx_call'[p].active

FailedFetchKeepsCache == (Returns /\ FailedEnd') => cache' = cache

\* A fetch of a URL that has no cache file starts a GET.
MissGoesToNetwork ==
    \A p \in Callers, u \in Urls :
        (~cache[u].exists /\ fetch_url(p, u))
            => /\ fx_call'[p].active
               /\ fx_call'[p].url = u
               /\ fx_last' = fx_last

\* C17: a _fetch_url call on a cache miss whose GET ends in a non-2xx status, a
\* body above max_source_bytes, a timeout or a network error has issued exactly
\* one GET, returns empty text and leaves the cache as it was, so that a fetch of
\* that URL, still without a cache file, issues a GET again.
C17_FailedFetch ==
    /\ []((fx_last.cur.done /\ FailedEnd) =>
            /\ fx_last.cur.gets = 1
            /\ fx_last.cur.text = <<>>
            /\ ~fx_last.cur.ok)
    /\ [][FailedFetchKeepsCache]_vars
    /\ [][MissGoesToNetwork]_vars

\* A fetch that failed was followed by a fetch of the same URL that went to the
\* network and got a body above the ceiling.
C17_Witness ==
    /\ FetchedTwice
    /\ ~fx_last.prev.ok
    /\ fx_last.prev.gets = 1
    /\ fx_last.end = "too_large"
    /\ fx_last.cur.gets = 1
    /\ \A u \in Urls : ~cache[u].exists

EntryKept == \A u \in Urls : EntryExists(u) => cache'[u] = cache[u]

EntryKeptUnlessInFlight ==
    \A u \in Urls : (EntryExists(u) /\ NoneInFlight(u)) => cache'[u] = cache[u]

HitReturnsStored ==
    \A p \in Callers, u \in Urls :
        (EntryExists(u) /\ fetch_url(p, u))
            => /\ fx_last'.cur = Fetched(u, 0, read_text(cache[u].data), TRUE)
               /\ ~fx_call'[p].active
               /\ cache' = cache

\* C18 as stated: once a cache entry exists for a URL nothing modifies or removes
\* it, and every later fetch of that URL returns the stored text without a GET.
C18_Original ==
    /\ [][EntryKept]_vars
    /\ [][HitReturnsStored]_vars

\* C18 amended: once a cache entry exists for a URL, every fetch of that URL that
\* starts afterwards returns the text stored at that moment without a GET, and
\* nothing modifies or removes the entry unless a fetch of that URL was already
\* waiting for its response when the entry was created.
C18_EntryStable ==
    /\ [][EntryKeptUnlessInFlight]_vars
    /\ [][HitReturnsStored]_vars

\* Two fetches in a row were served from a cache entry holding a replaced byte.
C18_Witness ==
    /\ FetchedTwice
    /\ fx_last.prev.gets = 0
    /\ fx_last.cur.gets = 0
    /\ fx_last.cur.text = <<"U+FFFD">>
    /\ EntryExists(fx_last.cur.url)

\* The text a reader gets from the cache file written from the body stored last.
CompleteText(u) == read_text(write_text(decode_replace(cache_origin[u].body)))

HitReturnsComplete ==
    \A p \in Callers, u \in Urls :
        (cache[u].exists /\ fetch_url(p, u)) => fx_last'.cur.text = CompleteText(u)

\* C20: when fetches of the same uncached URL interleave, the cache entry holds the
\* complete text of one of the successful fetches after any interleaving, and no
\* fetch returns a partially written cache file.
C20_CacheWritesSafe ==
    /\ [](\A u \in Urls :
            EntryExists(u) =>
                /\ EndOf(cache_origin[u]) = "read"
                /\ cache[u].data = write_text(decode_replace(cache_origin[u].body)))
    /\ [][HitReturnsComplete]_vars

\* Two fetches of one uncached URL overlapped and both wrote the cache file.
C20_Witness ==
    /\ fx_last.cur.done
    /\ fx_last.cur.ok
    /\ fx_last.cur.gets = 1
    /\ ~fx_last.alone
    /\ fx_last.over
    /\ fx_last.cur.text = <<"x">>

(***************************************************************************)
(* FileSystemKnowledgeBase.load_source_content, with pathlib and the file  *)
(* system it runs on.                                                      *)
(*                                                                         *)
(* A path is [abs, parts]: whether it is absolute, and its components      *)
(* (strings).  The disk holds no symbolic links.  The process runs in      *)
(* directory /w and config.sources_dir is the relative path "s".           *)
(***************************************************************************)
Cwd == << <<"w">> >>
sources_dir == [abs |-> FALSE, parts |-> << <<"s">> >>]

\* Directories and regular files of the disk, by absolute path, and the
\* text of each file.
Dirs == { <<>>, << <<"w">> >>, << <<"w">>, <<"s">> >>, << <<"w">>, <<"s">>, <<"s">> >> }

FileText ==
    ( << <<"w">>, <<"s">>, <<"a">> >>          :> <<"x">> ) @@
    ( << <<"w">>, <<"s">>, <<"s">>, <<"a">> >> :> <<"y">> ) @@
    ( << <<"w">>, <<"s">>, <<"w">> >>          :> <<SP, NL>> ) @@
    ( << <<"w">>, <<"a">> >>                   :> <<"z">> ) @@
    ( << <<"a">> >>                            :> <<"z">> )

Files == DOMAIN FileText

\* pathlib.Path(str): split on "/", drop empty and "." components.
RECURSIVE DropDots(_)
DropDots(parts) ==
    IF parts = <<>> THEN <<>>
    ELSE IF Head(parts) \in { <<>>, <<".">> } THEN DropDots(Tail(parts))
    ELSE <<Head(parts)>> \o DropDots(Tail(parts))

Path(str) == [abs |-> str # <<>> /\ Head(str) = "/", parts |-> DropDots(split(str, <<"/">>))]

\* PurePath.as_posix()
as_posix(p) ==
    IF p.parts = <<>> THEN (IF p.abs THEN <<"/">> ELSE <<".">>)
    ELSE (IF p.abs THEN <<"/">> ELSE <<>>) \o join(p.parts, <<"/">>)

\* a / b
JoinPath(a, b) == IF b.abs THEN b ELSE [abs |-> a.abs, parts |-> a.parts \o b.parts]

\* Path.resolve() (not strict): the absolute path with ".." folded, from / or the
\* working directory.
RECURSIVE Fold(_, _)
Fold(at, parts) ==
    IF parts = <<>> THEN at
    ELSE IF Head(parts) = <<".", ".">>
    THEN Fold(IF at = <<>> THEN <<>> ELSE SubSeq(at, 1, Len(at) - 1), Tail(parts))
    ELSE Fold(Append(at, Head(parts)), Tail(parts))

resolve(p) == Fold(IF p.abs THEN <<>> ELSE Cwd, p.parts)

\* resolved.relative_to(root) succeeds
IsRelativeTo(path, root) ==
    Len(path) >= Len(root) /\ SubSeq(path, 1, Len(root)) = root

\* The kernel's lookup of a path: every component but the last must lead to an
\* existing directory; <<"?">> when the lookup fails.
NoEntry == << <<"?">> >>

RECURSIVE Walk(_, _)
Walk(at, parts) ==
    IF parts = <<>> THEN at
    ELSE IF at \notin Dirs THEN NoEntry
    ELSE IF Head(parts) = <<".", ".">>
    THEN Walk(IF at = <<>> THEN <<>> ELSE SubSeq(at, 1, Len(at) - 1), Tail(parts))
    ELSE Walk(Append(at, Head(parts)), Tail(parts))

Lookup(p) == Walk(IF p.abs THEN <<>> ELSE Cwd, p.parts)

\* file_path.exists() and file_path.is_file()
is_file(p) == Lookup(p) \in Files

\* source_id.startswith(("http://", "https://"))
HttpPrefix == <<"h", "t", "t", "p", ":", "/", "/">>
HttpsPrefix == <<"h", "t", "t", "p", "s", ":", "/", "/">>
IsUrl(id) == startswith(id, HttpPrefix) \/ startswith(id, HttpsPrefix)

\* _normalize_file_source_id, lines 20-32
normalize_file_source_id(source_id, dir) ==
    LET raw == strip(source_id)
        normalized == lstrip(replace(raw, "\\", "/"), {"/"})
        sources_dir_norm == rstrip(as_posix(dir), {"/"})
    IN  IF sources_dir_norm # <<>> /\ startswith(normalized, sources_dir_norm \o <<"/">>)
        THEN SubSeq(normalized, Len(sources_dir_norm) + 2, Len(normalized))
        ELSE normalized

Result(impl, kind, text, read) == [impl |-> impl, kind |-> kind, text |-> text, read |-> read]

\* What fetcher.fetch / _fetch_url hands back for a URL source.
FetchTexts == {<<>>, <<SP>>, <<"x">>}

\* Lines 185-191 (community_intern): the file is looked up, read and checked.
ReadSource(impl, file_path) ==
    IF ~is_file(file_path)
    THEN Result(impl, "FileNotFoundError", <<>>, <<>>)
    ELSE LET at == Lookup(file_path)
             text == read_text(FileText[at])
         IN  IF strip(text) = <<>>
             THEN Result(impl, "ValueError_empty", <<>>, at)
             ELSE Result(impl, "SourceContent", text, at)

\* Lines 164-191 (community_intern): the file branch of load_source_content
load_file_source(source_id) ==
    LET raw_path == Path(strip(source_id))
        sources_dir_resolved == resolve(sources_dir)
    IN  IF raw_path.abs
        THEN LET resolved == resolve(raw_path)
             IN  IF ~IsRelativeTo(resolved, sources_dir_resolved)
                 THEN Result("community", "ValueError_outside", <<>>, <<>>)
                 ELSE ReadSource("community", [abs |-> TRUE, parts |-> resolved])
        ELSE LET normalized_id == normalize_file_source_id(source_id, sources_dir)
             IN  ReadSource("community", JoinPath(sources_dir, Path(normalized_id)))

\* community_intern/kb/impl.py, load_source_content, lines 150-197
load_source_content ==
    /\ rs_result = NoResult
    /\ IF IsUrl(rs_id)
       THEN \E text \in FetchTexts :
               rs_result' = IF strip(text) = <<>>
                            THEN Result("community", "RuntimeError", <<>>, <<>>)
                            ELSE Result("community", "SourceContent", text, <<>>)
       ELSE rs_result' = load_file_source(rs_id)
    /\ UNCHANGED <<rs_id, rsOthers>>

\* discord_intern/kb/impl.py, load_source_content, lines 127-151
discord_load_source_content ==
    /\ rs_result = NoResult
    /\ IF IsUrl(rs_id)
       THEN \E text \in FetchTexts :
               rs_result' = Result("discord", "SourceContent", text, <<>>)
       ELSE LET file_path == JoinPath(sources_dir, Path(rs_id))
            IN  rs_result' =
                  IF is_file(file_path)
                  THEN Result("discord", "SourceContent",
                              read_text(FileText[Lookup(file_path)]), Lookup(file_path))
                  ELSE Result("discord", "SourceContent", <<>>, <<>>)
    /\ UNCHANGED <<rs_id, rsOthers>>

RsInit == Start("resolve")

RsNext == load_source_content \/ discord_load_source_content

SpecResolve ==
    /\ RsInit
    /\ [][RsNext]_vars

(***************************************************************************)
(* Claims about load_source_content.                                       *)
(***************************************************************************)
SourceRoot == << <<"w">>, <<"s">> >>

\* The absolute path a file identifier stands for: the identifier taken under the
\* source root (or by itself when absolute), with ".." folded.
RECURSIVE Canonical(_, _)
Canonical(at, parts) ==
    IF parts = <<>> THEN at
    ELSE IF Head(parts) \in { <<>>, <<".">> } THEN Canonical(at, Tail(parts))
    ELSE IF Head(parts) = <<".", ".">>
    THEN Canonical(IF at = <<>> THEN <<>> ELSE SubSeq(at, 1, Len(at) - 1), Tail(parts))
    ELSE Canonical(Append(at, Head(parts)), Tail(parts))

TargetOf(id) ==
    LET t == strip(id)
    IN  Canonical(IF t # <<>> /\ Head(t) = "/" THEN <<>> ELSE SourceRoot,
                  split(t, <<"/">>))

InsideRoot(path) == Len(path) >= 2 /\ SubSeq(path, 1, 2) = SourceRoot

RsCalled == rs_result.kind # "none"

\* C1: for every non-URL identifier whose path resolves outside the source root,
\* load_source_content fails with the out-of-bounds error, and no file outside the
\* source root is read.
C1_SandboxEnforced ==
    (RsCalled /\ ~IsUrl(rs_id)) =>
        /\ ~InsideRoot(TargetOf(rs_id)) => rs_result.kind = "ValueError_outside"
        /\ rs_result.read # <<>> => InsideRoot(rs_result.read)

\* The relative paths of the files under the source root.
RelFiles == { <<"a">>, <<"s", "/", "a">>, <<"w">> }

\* C13: for every relative path p of a file under the source root,
\* load_source_content on "<root>/p", also written with backslashes or with a
\* leading slash, gives what load_source_content on p gives: the prefix is
\* stripped exactly once.
C13_PrefixStrippedOnce ==
    (rs_result.impl = "community" /\ ~IsUrl(rs_id)) =>
        \A p \in RelFiles :
            rs_id \in { <<"s", "/">> \o p,
                        replace(<<"s", "/">> \o p, "/", "\\"),
                        <<"/", "s", "/">> \o p }
                => /\ rs_result.kind = load_file_source(p).kind
                   /\ rs_result.text = load_file_source(p).text

\* C11: load_source_content never returns a SourceContent whose text is empty or
\* whitespace-only; a missing file, an empty file and a URL whose fetch yields
\* empty text each end in a failure raised to the caller.
C11_NeverEmptyContent ==
    rs_result.kind = "SourceContent" => strip(rs_result.text) # <<>>

(***************************************************************************)
(* FileSystemKnowledgeBase.build_index (community_intern), with a reader   *)
(* coroutine calling load_index_text on the same event loop.               *)
(*                                                                         *)
(* The source tree and the links file do not change during a build.  The   *)
(* build coroutine is suspended only at its awaits: fetcher.fetch and      *)
(* summarize_for_kb_index.  pathlib calls are synchronous.                  *)
(***************************************************************************)

\* str.splitlines() of a text read with universal newlines
splitlines(text) ==
    LET parts == split(text, <<NL>>)
    IN  IF parts[Len(parts)] = <<>> THEN SubSeq(parts, 1, Len(parts) - 1) ELSE parts

\* Lines 72-82: the URLs of the links file
links_urls(file) ==
    IF ~file.exists THEN {}
    ELSE LET lines == splitlines(read_text(file.data))
         IN  { strip(lines[i]) : i \in { j \in 1..Len(lines) :
                   /\ strip(lines[j]) # <<>>
                   /\ ~startswith(strip(lines[j]), <<"#">>) } }

\* The same lines in file order, one element per url_sources.add(url) call.
links_found(file) ==
    IF ~file.exists THEN <<>>
    ELSE LET lines == splitlines(read_text(file.data))
             keep(l) == strip(l) # <<>> /\ ~startswith(strip(l), <<"#">>)
             kept == SelectSeq(lines, keep)
         IN  [i \in 1..Len(kept) |-> strip(kept[i])]

\* discord_intern: self._url_pattern = r'https?://(?:[-\w.]|(?:%[\da-fA-F]{2}))+[^\s]*'.
\* A match starts at the leftmost "http://" or "https://" that is followed by a
\* host character and runs to the next whitespace.
HostChars == {"-", ".", "a", "b", "h", "p", "s", "t", "w", "x"}

StartsUrl(t) ==
    \/ startswith(t, HttpPrefix) /\ Len(t) > Len(HttpPrefix)
          /\ (t[Len(HttpPrefix) + 1] \in HostChars \/ t[Len(HttpPrefix) + 1] = "%")
    \/ startswith(t, HttpsPrefix) /\ Len(t) > Len(HttpsPrefix)
          /\ (t[Len(HttpsPrefix) + 1] \in HostChars \/ t[Len(HttpsPrefix) + 1] = "%")

\* The whitespace-free runs of a text, in order.
RECURSIVE words(_, _)
words(text, cur) ==
    IF text = <<>> THEN (IF cur = <<>> THEN <<>> ELSE <<cur>>)
    ELSE IF Head(text) \in Whitespace
    THEN (IF cur = <<>> THEN <<>> ELSE <<cur>>) \o words(Tail(text), <<>>)
    ELSE words(Tail(text), Append(cur, Head(text)))

RECURSIVE match_in(_)
match_in(word) ==
    IF word = <<>> THEN <<>>
    ELSE IF StartsUrl(word) THEN word
    ELSE match_in(Tail(word))

\* self._url_pattern.findall(text), each match with url.rstrip('.,;)"\'')
TrailingPunctuation == {".", ",", ";", ")", "\"", "'"}

found_urls(text) ==
    LET ws == words(text, <<>>)
        hit(w) == match_in(w) # <<>>
        hits == SelectSeq(ws, hit)
    IN  [i \in 1..Len(hits) |-> rstrip(match_in(hits[i]), TrailingPunctuation)]

\* sources_dir.rglob("*") restricted to is_file() and a name not starting with "."
rglob_files(disk) ==
    { q \in { JoinPath(sources_dir, Path(p)) : p \in { r \in BdPaths : disk[r] # "absent" } } :
        ~startswith(q.parts[Len(q.parts)], <<".">>) }

\* file_path.relative_to(sources_dir)
relative_to(path, base) ==
    [abs |-> FALSE, parts |-> SubSeq(path.parts, Len(base.parts) + 1, Len(path.parts))]

rel_path_of(file_path) == as_posix(relative_to(file_path, sources_dir))

\* list comparison of path components, as PurePath.__lt__ does
RECURSIVE parts_lt(_, _)
parts_lt(a, b) ==
    IF b = <<>> THEN FALSE
    ELSE IF a = <<>> THEN TRUE
    ELSE IF Head(a) # Head(b) THEN str_lt(Head(a), Head(b))
    ELSE parts_lt(Tail(a), Tail(b))

\* The files in the order of their path strings.
RECURSIVE sorted_by_string(_)
sorted_by_string(S) ==
    IF S = {} THEN <<>>
    ELSE LET m == CHOOSE x \in S :
                    \A y \in S \ {x} : str_lt(as_posix(x), as_posix(y))
         IN  <<m>> \o sorted_by_string(S \ {m})

\* sorted(file_sources), a set of Path objects
RECURSIVE sorted_files(_)
sorted_files(S) ==
    IF S = {} THEN <<>>
    ELSE LET m == CHOOSE x \in S : \A y \in S \ {x} : parts_lt(x.parts, y.parts)
         IN  <<m>> \o sorted_files(S \ {m})

\* sorted(url_sources), a set of str
RECURSIVE sorted_urls(_)
sorted_urls(S) ==
    IF S = {} THEN <<>>
    ELSE LET m == CHOOSE x \in S : \A y \in S \ {x} : str_lt(x, y)
         IN  <<m>> \o sorted_urls(S \ {m})

\* The bytes of a readable file.
DiskData(status) ==
    IF status = "text" THEN <<"x">>
    ELSE IF status = "urls"
    THEN <<"x", SP>> \o U2 \o <<".", NL, "x">> \o U1 \o <<",", SP>> \o U1
    ELSE <<>>

\* The URLs found in the files gathered, one element per url_sources.add(url)
\* call of discord_intern's gathering loop (lines 63-76).
RECURSIVE scan_found(_, _)
scan_found(files, disk) ==
    IF files = <<>> THEN <<>>
    ELSE found_urls(read_text(DiskData(disk[rel_path_of(Head(files))])))
         \o scan_found(Tail(files), disk)

\* The URLs in sorted order, every discovery kept.
RECURSIVE sorted_discoveries(_)
sorted_discoveries(found) ==
    IF found = <<>> THEN <<>>
    ELSE LET i == CHOOSE k \in DOMAIN found :
                    \A j \in DOMAIN found : ~str_lt(found[j], found[k])
         IN  <<found[i]>> \o sorted_discoveries(
                 SubSeq(found, 1, i - 1) \o SubSeq(found, i + 1, Len(found)))

\* url_sources: Set[str] filled by url_sources.add(url), then sorted(url_sources)
sorted_url_sources(found) == sorted_urls({ found[i] : i \in DOMAIN found })

\* summarize_for_kb_index as build_index sees it: "" for blank text, otherwise a
\* summary or an exception (fatal status, or retries exhausted).
BdSummaries == { <<"x">> }

SummarizeResults(text) ==
    IF strip(text) = <<>>
    THEN { [ok |-> TRUE, summary |-> <<>>] }
    ELSE { [ok |-> TRUE, summary |-> t] : t \in BdSummaries }
         \cup { [ok |-> FALSE, summary |-> <<>>] }

Logged(id, kind, text, r) ==
    [id |-> id, kind |-> kind, text |-> text,
     result |-> IF r.ok THEN "summary" ELSE "raised", summary |-> r.summary]

\* Lines 59-103: root check, links file, gathering, sorting.
build_index ==
    /\ bd_pc = "idle"
    /\ IF ~bd_root
       THEN /\ bd_pc' = "returned"
            /\ UNCHANGED <<bd_files_todo, bd_urls_todo>>
       ELSE IF \E q \in rglob_files(bd_disk) : bd_disk[rel_path_of(q)] = "unreadable"
       THEN \* read_text raises OSError, which line 90 does not catch
            /\ bd_pc' = "raised"
            /\ UNCHANGED <<bd_files_todo, bd_urls_todo>>
       ELSE /\ bd_pc' = "sources"
            /\ bd_files_todo' = sorted_files(
                   { q \in rglob_files(bd_disk) : bd_disk[rel_path_of(q)] # "undecodable" })
            /\ bd_urls_todo' = sorted_url_sources(links_found(bd_links))
    /\ UNCHANGED <<bd_root, bd_disk, bd_links, bd_artifact, bd_old, bd_entries, bd_log,
                   bd_inflight, bd_read, bdOthers>>

\* discord_intern/kb/impl.py, build_index, lines 51-81: root check, gathering
\* with the URL scan of every file read, sorting.  There is no links file.
discord_build_index ==
    /\ bd_pc = "idle"
    /\ IF ~bd_root
       THEN /\ bd_pc' = "returned"
            /\ UNCHANGED <<bd_files_todo, bd_urls_todo>>
       ELSE IF \E q \in rglob_files(bd_disk) : bd_disk[rel_path_of(q)] = "unreadable"
       THEN /\ bd_pc' = "raised"
            /\ UNCHANGED <<bd_files_todo, bd_urls_todo>>
       ELSE LET file_sources ==
                  { q \in rglob_files(bd_disk) : bd_disk[rel_path_of(q)] # "undecodable" }
            IN  /\ bd_pc' = "sources"
                /\ bd_files_todo' = sorted_files(file_sources)
                /\ bd_urls_todo' =
                      sorted_url_sources(scan_found(sorted_files(file_sources), bd_disk))
    /\ UNCHANGED <<bd_root, bd_disk, bd_links, bd_artifact, bd_old, bd_entries, bd_log,
                   bd_inflight, bd_read, bdOthers>>

\* A request awaiting its result: the fetch of a URL, or the summarization of the
\* text of a source (one summarize_for_kb_index call, retries and sleeps included).
Request(kind, id, source, text) == [kind |-> kind, id |-> id, source |-> source, text |-> text]

\* The loops go on to the next source only when the awaited call of the current
\* one has returned or raised (await at lines 112, 130 and 134).
NextSourceAtOnce == TRUE
NextSourceWaits == bd_inflight = {}

\* Lines 105-113: the next file of sorted_files is read and its summarization
\* requested; summarize_for_kb_index returns "" for blank text without a request.
build_index_file ==
    /\ bd_pc = "sources"
    /\ bd_files_todo # <<>>
    /\ NextSourceWaits
    /\ LET rel_path == rel_path_of(Head(bd_files_todo))
           text == read_text(DiskData(bd_disk[rel_path]))
       IN  IF strip(text) = <<>>
           THEN \E r \in SummarizeResults(text) :
                  /\ bd_entries' = Append(bd_entries, rel_path \o <<NL>> \o r.summary)
                  /\ bd_log' = Append(bd_log, Logged(rel_path, "file", text, r))
                  /\ UNCHANGED bd_inflight
           ELSE /\ bd_inflight' = bd_inflight \cup {Request("summarize", rel_path, "file", text)}
                /\ UNCHANGED <<bd_entries, bd_log>>
    /\ bd_files_todo' = Tail(bd_files_todo)
    /\ UNCHANGED <<bd_root, bd_disk, bd_links, bd_artifact, bd_old, bd_pc, bd_urls_todo,
                   bd_read, bdOthers>>

\* Lines 112-118 and 134-139: a summarization returns its summary, which is
\* appended, or raises, which is logged.
build_index_summarized ==
    /\ bd_pc = "sources"
    /\ \E q \in bd_inflight : \E r \in SummarizeResults(q.text) :
          /\ q.kind = "summarize"
          /\ bd_entries' = IF r.ok
                           THEN Append(bd_entries, q.id \o <<NL>> \o r.summary)
                           ELSE bd_entries
          /\ bd_log' = Append(bd_log, Logged(q.id, q.source, q.text, r))
          /\ bd_inflight' = bd_inflight \ {q}
    /\ UNCHANGED <<bd_root, bd_disk, bd_links, bd_artifact, bd_old, bd_pc, bd_files_todo,
                   bd_urls_todo, bd_read, bdOthers>>

\* Lines 124-130: the fetch of the next URL of sorted_urls is requested.
build_index_url ==
    /\ bd_pc = "sources"
    /\ bd_files_todo = <<>>
    /\ bd_urls_todo # <<>>
    /\ NextSourceWaits
    /\ bd_inflight' = bd_inflight \cup {Request("fetch", Head(bd_urls_todo), "url", <<>>)}
    /\ bd_urls_todo' = Tail(bd_urls_todo)
    /\ UNCHANGED <<bd_root, bd_disk, bd_links, bd_artifact, bd_old, bd_pc, bd_files_todo,
                   bd_entries, bd_log, bd_read, bdOthers>>

\* Lines 130-137: the fetch returns; empty text skips the URL, other text is
\* handed to summarize_for_kb_index.
build_index_fetched ==
    /\ bd_pc = "sources"
    /\ \E q \in bd_inflight, text \in FetchTexts :
          /\ q.kind = "fetch"
          /\ IF text = <<>>
             THEN /\ bd_log' = Append(bd_log, [id |-> q.id, kind |-> "url", text |-> text,
                                               result |-> "no_text", summary |-> <<>>])
                  /\ bd_inflight' = bd_inflight \ {q}
                  /\ UNCHANGED bd_entries
             ELSE IF strip(text) = <<>>
             THEN \E r \in SummarizeResults(text) :
                    /\ bd_entries' = Append(bd_entries, q.id \o <<NL>> \o r.summary)
                    /\ bd_log' = Append(bd_log, Logged(q.id, "url", text, r))
                    /\ bd_inflight' = bd_inflight \ {q}
             ELSE /\ bd_inflight' = (bd_inflight \ {q})
                                        \cup {Request("summarize", q.id, "url", text)}
                  /\ UNCHANGED <<bd_entries, bd_log>>
    /\ UNCHANGED <<bd_root, bd_disk, bd_links, bd_artifact, bd_old, bd_pc, bd_files_todo,
                   bd_urls_todo, bd_read, bdOthers>>

\* The index file opened for writing whatever is left to process.
build_index_open_early ==
    /\ bd_pc = "sources"
    /\ bd_artifact' = File(<<>>)
    /\ bd_pc' = "writing"
    /\ UNCHANGED <<bd_root, bd_disk, bd_links, bd_old, bd_files_todo, bd_urls_todo,
                   bd_entries, bd_log, bd_inflight, bd_read, bdOthers>>

\* Line 147, first half: write_text opens the index file for writing, which
\* truncates it.
build_index_open ==
    /\ bd_pc = "sources"
    /\ bd_files_todo = <<>>
    /\ bd_urls_todo = <<>>
    /\ bd_inflight = {}
    /\ bd_artifact' = File(<<>>)
    /\ bd_pc' = "writing"
    /\ UNCHANGED <<bd_root, bd_disk, bd_links, bd_old, bd_files_todo, bd_urls_todo,
                   bd_entries, bd_log, bd_inflight, bd_read, bdOthers>>

\* Lines 146-148: the joined entries are written and the file is closed.
build_index_write ==
    /\ bd_pc = "writing"
    /\ bd_artifact' = File(write_text(join(bd_entries, EntrySeparator)))
    /\ bd_pc' = "done"
    /\ UNCHANGED <<bd_root, bd_disk, bd_links, bd_old, bd_files_todo, bd_urls_todo,
                   bd_entries, bd_log, bd_inflight, bd_read, bdOthers>>

\* Another coroutine runs only while build_index is not running or is suspended
\* at an await; there is none between the open and the close of the index file.
AtAwaitAlways == TRUE
AtAwait == bd_pc # "writing"

\* load_index_text called by another coroutine, lines 34-39
reader_load_index_text ==
    /\ AtAwait
    /\ bd_read' = [done |-> TRUE, text |-> load_index_text(bd_artifact), pc |-> bd_pc]
    /\ bd_read' # bd_read
    /\ UNCHANGED <<bd_root, bd_disk, bd_links, bd_artifact, bd_old, bd_pc, bd_files_todo,
                   bd_urls_todo, bd_entries, bd_log, bd_inflight, bdOthers>>

BdInit == Start("build")

BdNext ==
    \/ build_index
    \/ discord_build_index
    \/ build_index_file
    \/ build_index_summarized
    \/ build_index_url
    \/ build_index_fetched
    \/ build_index_open
    \/ build_index_write
    \/ reader_load_index_text

SpecBuild ==
    /\ BdInit
    /\ [][BdNext]_vars

(***************************************************************************)
(* Claims about build_index.                                               *)
(***************************************************************************)
\* The index text a reader gets from the file the build writes.
NewIndexText == read_text(write_text(join(bd_entries, <<NL, NL>>)))

\* C2: a load_index_text call that runs concurrently with build_index returns
\* the complete index that existed before the build's write or the complete
\* index the build writes, never an empty or partial one in between.
C2_ReadersSeeComplete ==
    bd_read.done =>
        \/ bd_read.text = load_index_text(bd_old)
        \/ /\ bd_read.pc \in {"writing", "done"}
           /\ bd_read.text = NewIndexText

\* A reader ran while the build was between two sources, and the build then
\* replaced a non-empty index by a different one.
C2_Witness ==
    /\ bd_read.done
    /\ bd_read.pc = "sources"
    /\ bd_log # <<>>
    /\ bd_pc = "done"
    /\ bd_old.exists
    /\ load_index_text(bd_artifact) # load_index_text(bd_old)
    /\ load_index_text(bd_artifact) # <<>>

\* Position of the entry of source `id` in entries, 0 if none.
EntryOf(id) ==
    LET at == { j \in 1..Len(bd_entries) : startswith(bd_entries[j], id \o <<NL>>) }
    IN  IF at = {} THEN 0 ELSE CHOOSE j \in at : TRUE

\* C3: a failure while processing one source never aborts the build: the build
\* reaches the write of the index, and the index written holds an entry for every
\* source whose own read or fetch and summarization succeeded.
C3_NeverAborts ==
    /\ bd_pc # "raised"
    /\ bd_pc = "done" =>
         \A i \in 1..Len(bd_log) :
            bd_log[i].result = "summary" => EntryOf(bd_log[i].id) # 0

\* The summarized sources of the build, as (kind, id, summary).
Summarized ==
    { [kind |-> bd_log[i].kind, id |-> bd_log[i].id, summary |-> bd_log[i].summary] :
        i \in { j \in 1..Len(bd_log) : bd_log[j].result = "summary" } }

Arrangements(S) ==
    { f \in [1..Cardinality(S) -> S] : \A i, j \in DOMAIN f : f[i] = f[j] => i = j }

Serialized(seq) ==
    write_text(join([i \in DOMAIN seq |-> seq[i].id \o <<NL>> \o seq[i].summary],
                    <<NL, NL>>))

FilesBeforeUrls(seq) ==
    \A i, j \in DOMAIN seq : (i < j /\ seq[i].kind = "url") => seq[j].kind = "url"

UrlsByString(seq) ==
    \A i, j \in DOMAIN seq :
        (i < j /\ seq[i].kind = "url" /\ seq[j].kind = "url") => str_lt(seq[i].id, seq[j].id)

FilesByString(seq) ==
    \A i, j \in DOMAIN seq :
        (i < j /\ seq[i].kind = "file" /\ seq[j].kind = "file")
            => str_lt(seq[i].id, seq[j].id)

FilesByComponents(seq) ==
    \A i, j \in DOMAIN seq :
        (i < j /\ seq[i].kind = "file" /\ seq[j].kind = "file")
            => parts_lt(split(seq[i].id, <<"/">>), split(seq[j].id, <<"/">>))

\* C9 as stated: the index written is the serialization of the summarized sources
\* with files before URLs, files in lexicographic order of their relative path
\* strings and URLs in lexicographic order of the URL strings; so it is determined
\* by the sources and their results.
C9_Original ==
    bd_pc = "done" =>
        \E seq \in Arrangements(Summarized) :
            /\ FilesBeforeUrls(seq) /\ FilesByString(seq) /\ UrlsByString(seq)
            /\ bd_artifact.data = Serialized(seq)

\* C9 (amended): the index written is the serialization of the summarized sources
\* with files before URLs, files in the order of their relative paths compared
\* component by component, and URLs in lexicographic order of the URL strings; so
\* it is determined by the sources and their results.
C9_DeterministicOrder ==
    bd_pc = "done" =>
        \E seq \in Arrangements(Summarized) :
            /\ FilesBeforeUrls(seq) /\ FilesByComponents(seq) /\ UrlsByString(seq)
            /\ bd_artifact.data = Serialized(seq)

\* Two files whose string order and component order differ, and two URLs, were
\* all summarized and written.
C9_Witness ==
    /\ bd_pc = "done"
    /\ Cardinality(Summarized) = 4
    /\ Len(bd_entries) = 4
    /\ startswith(bd_artifact.data, <<"a", "/", "b", NL>>)

\* C10: a source whose obtained text is empty gets no entry: the index holds one
\* entry per successfully summarized source and none for a source with empty text.
C10_EmptyTextSkipped ==
    bd_pc = "done" =>
        \A i \in 1..Len(bd_log) :
            bd_log[i].text = <<>> => EntryOf(bd_log[i].id) = 0

\* The URL entries of the log: one per fetch invoked by the build.
FetchesOf(url) == { i \in 1..Len(bd_log) : bd_log[i].kind = "url" /\ bd_log[i].id = url }

\* C12: within one build_index run, fetch is invoked at most once for each
\* distinct URL string, however often and wherever the URL was discovered.
C12_OneFetchPerUrl ==
    \A i \in 1..Len(bd_log) :
        bd_log[i].kind = "url" => Cardinality(FetchesOf(bd_log[i].id)) = 1

\* A build over two files that each mention the same URL twice has fetched it.
C12_Witness ==
    /\ bd_pc = "done"
    /\ Cardinality({ p \in BdPaths : bd_disk[p] = "urls" /\ ~startswith(p, <<".">>) }) = 2
    /\ FetchesOf(U1) # {}
    /\ FetchesOf(U2) # {}

\* The index file changes only in the one write_text call that follows the last
\* source.
WriteStep ==
    bd_artifact' # bd_artifact =>
        /\ bd_files_todo = <<>> /\ bd_urls_todo = <<>>
        /\ \/ bd_pc = "sources" /\ bd_pc' = "writing"
           \/ bd_pc = "writing" /\ bd_pc' = "done"

\* Once the write has begun the build processes nothing more.
WriteIsLast ==
    bd_pc \in {"writing", "done"} =>
        /\ bd_pc' \in {"writing", "done"}
        /\ bd_log' = bd_log

\* C14: during a build_index run the index file is written at most once, and only
\* after the last source has been processed; a build that returns early because
\* the source root is missing, or that stops before the final write, leaves the
\* previous index file unchanged, and a missing root raises no error.
C14_WrittenOnceAtEnd ==
    /\ [](bd_pc \in {"idle", "sources", "returned", "raised"} => bd_artifact = bd_old)
    /\ [](~bd_root => bd_pc # "raised")
    /\ [](bd_pc = "done" => bd_files_todo = <<>> /\ bd_urls_todo = <<>>)
    /\ [][WriteStep]_vars
    /\ [][WriteIsLast]_vars

\* A build found the source root missing and returned with an earlier index on
\* disk.
C14_Witness ==
    /\ bd_pc = "returned"
    /\ ~bd_root
    /\ bd_old.exists
    /\ bd_artifact = bd_old

\* A request appears only when no request of another source is awaited.
StartsAfterPrevious ==
    \A q \in bd_inflight' \ bd_inflight :
        \A r \in bd_inflight : r.id = q.id /\ r \notin bd_inflight'

\* C19: within one build_index run the sources are processed one after another:
\* the fetch and the summarization of a source have returned or raised before a
\* request for the next source starts, so at most one fetch or summarization
\* request is in flight.
C19_OneSourceAtATime ==
    /\ [](Cardinality(bd_inflight) <= 1)
    /\ [][StartsAfterPrevious]_vars
    /\ [](\A q \in bd_inflight : \A i \in 1..Len(bd_log) : bd_log[i].id # q.id)

\* The summarization of the second URL is awaited after two files and the first
\* URL have been dealt with.
C19_Witness ==
    /\ bd_pc = "sources"
    /\ Len(bd_log) = 3
    /\ \E q \in bd_inflight : q.kind = "summarize" /\ q.id = U2

\* The source id build_index writes for the file at an absolute path under the
\* source root: the path rglob yields, taken relative to sources_dir.
WrittenId(at) ==
    rel_path_of([abs |-> FALSE, parts |-> SubSeq(at, Len(Cwd) + 1, Len(at))])

\* C22: for every non-empty file under the source root, load_source_content on the
\* source id build_index writes for it returns the text of that same file, also
\* when the relative path begins with a directory named like the source root.
C22_BuildResolveConsistent ==
    (RsCalled /\ rs_result.impl = "community") =>
        \A at \in Files :
            ( /\ InsideRoot(at)
              /\ strip(read_text(FileText[at])) # <<>>
              /\ rs_id = WrittenId(at) )
                => /\ rs_result.kind = "SourceContent"
                   /\ rs_result.read = at
                   /\ rs_result.text = read_text(FileText[at])

====
